---- MODULE Spec2Model ----
(***************************************************************************)
(* Vertex buffer arenas of libANGLE/renderer/d3d/VertexBuffer.cpp:        *)
(* the streaming arena (StreamingVertexBufferInterface), the static cache  *)
(* slot (StaticVertexBufferInterface) and the space calculator they share  *)
(* (VertexBufferInterface::getSpaceRequired).                              *)
(*                                                                         *)
(* unsigned int is modelled with WordBits bits: every unsigned result is   *)
(* taken modulo Modulus = 2^WordBits, as the 32-bit arithmetic of the      *)
(* source is taken modulo 2^32.                                            *)
(***************************************************************************)
EXTENDS Integers, Sequences, FiniteSets, TLC

\* Width of unsigned int in the model (32 in the source).
WordBits == 11
\* Number of operations performed on one arena in a behaviour.
MaxOps == 5

Modulus == 2 ^ WordBits
MaxUInt == Modulus - 1
Wrap(x) == x % Modulus
Max(a, b) == IF a >= b THEN a ELSE b

\* "no value": an output parameter that was not written.
NoValue == 0 - 1

VARIABLES
    mDynamic,        \* VertexBufferInterface::mDynamic
    bufferSize,      \* mVertexBuffer->getBufferSize()
    mWritePosition,  \* StreamingVertexBufferInterface::mWritePosition
    mReservedSpace,  \* StreamingVertexBufferInterface::mReservedSpace
    mSignature,      \* StaticVertexBufferInterface::mSignature
    last,            \* the last operation: arguments, state before it, result
    trace,           \* calls the last operation made on its collaborators
    run,             \* successful storeDynamicAttribute calls in a row
    lastSet,         \* descriptor of the last successful signature update
    nOps,            \* operations performed so far
    arena,           \* the arena object: "alive", "destroyed" or "crashed"
    mVertexBuffer,   \* VertexBufferInterface::mVertexBuffer, 0 for nullptr
    handles,         \* the VertexBuffer objects, by address
    held,            \* references other owners took with addRef, by address
    mNextSerial,     \* VertexBuffer::mNextSerial
    serials,         \* serials handed out: how many, first, previous, last
    batch            \* the draw's batch of reserve-then-store calls

\* The arena's own fields and the history of its last operation.
arenaVars == <<mDynamic, bufferSize, mWritePosition, mReservedSpace,
               mSignature, last, trace, run, lastSet, nOps>>

\* The buffer handles and their owners.
lifeVars == <<arena, mVertexBuffer, handles, held, mNextSerial, serials>>

vars == <<mDynamic, bufferSize, mWritePosition, mReservedSpace, mSignature,
          last, trace, run, lastSet, nOps, arena, mVertexBuffer, handles,
          held, mNextSerial, serials, batch>>

(***************************************************************************)
(* Inputs                                                                  *)
(***************************************************************************)
\* Byte counts the factory's getVertexSpaceRequired returns.
RawSizes == {0, 100, 200, 800, Modulus - 16, Modulus - 15}
\* Sizes the caller passes to setBufferSize / initialize.
BufferSizes == {101, 1024, Modulus - 16}

(***************************************************************************)
(* common/mathutil.h                                                       *)
(***************************************************************************)
\* A rounding that leaves the value as it is.
roundUp_Identity(value, alignment) == value

\* roundUp<unsigned int>: temp = value + alignment - 1 (wrapping);
\* temp - temp % alignment.
roundUp(value, alignment) ==
    LET temp == Wrap(value + alignment - 1)
    IN  temp - (temp % alignment)

\* CheckedRoundUp<unsigned int>: the same sum in CheckedNumeric; NoValue is
\* the invalid state.
CheckedRoundUp(value, alignment) ==
    IF value + alignment - 1 > MaxUInt
    THEN NoValue
    ELSE (value + alignment - 1) - ((value + alignment - 1) % alignment)

\* CheckedNumeric<unsigned int>::operator+= ; NoValue is the invalid state.
CheckedAdd(checked, value) ==
    IF checked = NoValue \/ checked + value > MaxUInt
    THEN NoValue
    ELSE checked + value

(***************************************************************************)
(* Buffer handle (rx::VertexBuffer, pure virtual in this file)             *)
(***************************************************************************)
Entry(call, size, offset) ==
    [call |-> call, size |-> size, offset |-> offset, dynamic |-> FALSE,
     ok |-> TRUE]

\* The call, with the answer the collaborator gave.
Answered(entry, ok) == [entry EXCEPT !.ok = ok]

\* initialize(size, dynamicUsage)
InitializeEntry(size, dynamic) ==
    [call |-> "initialize", size |-> size, offset |-> NoValue,
     dynamic |-> dynamic, ok |-> TRUE]

\* A caller that drops the collaborator's error.
CollaboratorResult_Swallowed(ok, failure) == "NoError"

\* Result of a handle call or of the factory's getVertexSpaceRequired.
CollaboratorResult(ok, failure) == IF ok THEN "NoError" ELSE failure

\* Capacity after initialize(size, dynamic) / setBufferSize(size).
HandleResize(cur, size, ok) == IF ok THEN size ELSE cur

(***************************************************************************)
(* VertexBufferInterface                                                   *)
(***************************************************************************)
\* An arena that takes every handle for an initialized one.
NeedsInitialize_Never(cur) == FALSE

\* if (mVertexBuffer->getBufferSize() == 0)
NeedsInitialize(cur) == cur = 0

\* VertexBufferInterface::setBufferSize
SetBufferSize(cur, size, ok) ==
    IF NeedsInitialize(cur)
    THEN [result     |-> CollaboratorResult(ok, "BufferError"),
          bufferSize |-> HandleResize(cur, size, ok),
          trace      |-> <<Answered(InitializeEntry(size, mDynamic), ok)>>]
    ELSE [result     |-> CollaboratorResult(ok, "BufferError"),
          bufferSize |-> HandleResize(cur, size, ok),
          trace      |-> <<Answered(Entry("setBufferSize", size, NoValue),
                                    ok)>>]

\* A space calculator that never reports the overflow.
AlignmentOverflows_Never(alignedSpaceRequired, spaceRequired) == FALSE

\* The overflow test of getSpaceRequired.
AlignmentOverflows(alignedSpaceRequired, spaceRequired) ==
    alignedSpaceRequired < spaceRequired

\* VertexBufferInterface::getSpaceRequired; out is *spaceInBytesOut.
GetSpaceRequired(raw, fOk) ==
    IF ~fOk
    THEN [result |-> "FactoryError", out |-> NoValue]
    ELSE LET alignedSpaceRequired == roundUp(raw, 16)
         IN  IF AlignmentOverflows(alignedSpaceRequired, raw)
             THEN [result |-> "OutOfMemory", out |-> NoValue]
             ELSE [result |-> "NoError", out |-> alignedSpaceRequired]

(***************************************************************************)
(* StreamingVertexBufferInterface                                          *)
(***************************************************************************)
\* A grow path without the amortized 3/2 growth.
GrowSize_Exact(size, curBufferSize) == size

\* The size reserveSpace asks for on the grow path.
GrowSize(size, curBufferSize) ==
    Max(size, Wrap(3 * curBufferSize) \div 2)

\* The test of the grow path.
NeedsGrow(size, curBufferSize) == size > curBufferSize

\* The test of the discard path (unsigned sum).
NeedsDiscard(writePosition, size, curBufferSize) ==
    Wrap(writePosition + size) > curBufferSize

\* A flush that rewinds the cursor before it knows the handle's answer.
PositionAfterFlush_Always(writePosition, ok) == 0

\* ANGLE_TRY(...); mWritePosition = 0: the cursor is rewound only when the
\* handle's call succeeded.
PositionAfterFlush(writePosition, ok) == IF ok THEN 0 ELSE writePosition

\* StreamingVertexBufferInterface::reserveSpace
ReserveSpace(writePosition, curBufferSize, size, hOk) ==
    IF NeedsGrow(size, curBufferSize)
    THEN LET r == SetBufferSize(curBufferSize, GrowSize(size, curBufferSize), hOk)
         IN  [result     |-> r.result,
              pos        |-> PositionAfterFlush(writePosition,
                                                r.result = "NoError"),
              bufferSize |-> r.bufferSize,
              trace      |-> r.trace]
    ELSE IF NeedsDiscard(writePosition, size, curBufferSize)
    THEN [result     |-> CollaboratorResult(hOk, "BufferError"),
          pos        |-> PositionAfterFlush(writePosition, hOk),
          bufferSize |-> curBufferSize,
          trace      |-> <<Answered(Entry("discard", NoValue, NoValue),
                                    hOk)>>]
    ELSE [result     |-> "NoError",
          pos        |-> writePosition,
          bufferSize |-> curBufferSize,
          trace      |-> << >>]

\* A store without the overflow protection.
PositionValid_Unchecked(writePosition, spaceRequired) == TRUE

\* The CheckedNumeric test of storeDynamicAttribute.
PositionValid(writePosition, spaceRequired) ==
    CheckedAdd(writePosition, spaceRequired) # NoValue

\* A store that forgets to advance the cursor.
AdvancePosition_Stuck(writePosition, spaceRequired) == writePosition

\* mWritePosition += spaceRequired
AdvancePosition(writePosition, spaceRequired) ==
    Wrap(writePosition + spaceRequired)

\* The size storeDynamicAttribute passes to reserveSpace.
FlushSize(reservedSpace, spaceRequired) == reservedSpace

\* A store that reports the cursor it was called with.
StreamOffset_PreFlush(writePosition, flushedPosition) == writePosition

\* *outStreamOffset = mWritePosition, read after reserveSpace returned
StreamOffset(writePosition, flushedPosition) == flushedPosition

\* StreamingVertexBufferInterface::storeDynamicAttribute, as a function of
\* the arena state and of what the collaborators answer.
StoreDynamicOutcome(pos, reserved, cur, raw, fOk, hOk, wOk) ==
    LET sp == GetSpaceRequired(raw, fOk)
        unchanged == [pos |-> pos, reserved |-> reserved, bufferSize |-> cur,
                      offset |-> NoValue, space |-> sp.out, trace |-> << >>]
    IN  IF sp.result # "NoError"
        THEN [unchanged EXCEPT !.space = NoValue] @@ [result |-> sp.result]
        ELSE IF ~PositionValid(pos, sp.out)
        THEN unchanged @@ [result |-> "OutOfMemory"]
        ELSE LET rs == ReserveSpace(pos, cur, FlushSize(reserved, sp.out), hOk)
                 write == Answered(Entry("storeVertexAttributes", sp.out,
                                         rs.pos), wOk)
             IN  IF rs.result # "NoError"
                 THEN [result |-> rs.result, pos |-> rs.pos,
                       reserved |-> reserved, bufferSize |-> rs.bufferSize,
                       offset |-> NoValue, space |-> sp.out,
                       trace |-> rs.trace]
                 ELSE IF ~wOk
                 THEN [result |-> "BufferError", pos |-> rs.pos,
                       reserved |-> 0, bufferSize |-> rs.bufferSize,
                       offset |-> NoValue, space |-> sp.out,
                       trace |-> Append(rs.trace, write)]
                 ELSE [result |-> "NoError",
                       pos |-> AdvancePosition(rs.pos, sp.out),
                       reserved |-> 0, bufferSize |-> rs.bufferSize,
                       offset |-> StreamOffset(pos, rs.pos),
                       space |-> sp.out,
                       trace |-> Append(rs.trace, write)]

\* A reservation summed in plain unsigned arithmetic.
ReservedAfter_Wrapping(reserved, requiredSpace) ==
    Wrap(roundUp(requiredSpace, 16) + reserved)

\* StreamingVertexBufferInterface::reserveVertexSpace: the new value of
\* mReservedSpace, or NoValue when the checked sum is invalid.
ReservedAfter(reserved, requiredSpace) ==
    CheckedAdd(CheckedRoundUp(requiredSpace, 16), reserved)

(***************************************************************************)
(* StaticVertexBufferInterface                                             *)
(***************************************************************************)
\* ComputeVertexAttributeStride(attrib, binding)
ComputeVertexAttributeStride(attrib) == attrib.stride

\* ComputeVertexAttributeOffset(attrib, binding)
ComputeVertexAttributeOffset(attrib) == attrib.offset

\* AttributeSignature::AttributeSignature
NoSignature == [type |-> "GL_NONE", size |-> 0, stride |-> 0,
                normalized |-> FALSE, pureInteger |-> FALSE, offset |-> 0]

\* A matcher that forgets the normalized offset.
MatchesAttribute_NoOffset(signature, attrib) ==
    LET attribStride == ComputeVertexAttributeStride(attrib)
    IN  ~ (\/ signature.type # attrib.type
           \/ signature.size # attrib.size
           \/ signature.stride # attribStride
           \/ signature.normalized # attrib.normalized
           \/ signature.pureInteger # attrib.pureInteger)

\* AttributeSignature::matchesAttribute
MatchesAttribute(signature, attrib) ==
    LET attribStride == ComputeVertexAttributeStride(attrib)
    IN  IF \/ signature.type # attrib.type
           \/ signature.size # attrib.size
           \/ signature.stride # attribStride
           \/ signature.normalized # attrib.normalized
           \/ signature.pureInteger # attrib.pureInteger
        THEN FALSE
        ELSE LET attribOffset ==
                     ComputeVertexAttributeOffset(attrib) % attribStride
             IN  signature.offset = attribOffset

\* A signature that keeps the byte offset as it is.
SignatureSet_RawOffset(attrib) ==
    [type        |-> attrib.type,
     size        |-> attrib.size,
     normalized  |-> attrib.normalized,
     pureInteger |-> attrib.pureInteger,
     stride      |-> Wrap(ComputeVertexAttributeStride(attrib)),
     offset      |-> ComputeVertexAttributeOffset(attrib)]

\* AttributeSignature::set
SignatureSet(attrib) ==
    [type        |-> attrib.type,
     size        |-> attrib.size,
     normalized  |-> attrib.normalized,
     pureInteger |-> attrib.pureInteger,
     stride      |-> Wrap(ComputeVertexAttributeStride(attrib)),
     offset      |-> ComputeVertexAttributeOffset(attrib)
                         % ComputeVertexAttributeStride(attrib)]

\* A static store that only ever enlarges its buffer.
StaticBufferSize_NoShrink(curBufferSize, spaceRequired) ==
    Max(curBufferSize, spaceRequired)

\* The size storeStaticAttribute passes to setBufferSize.
StaticBufferSize(curBufferSize, spaceRequired) == spaceRequired

\* A store that records the layout before it knows the write succeeded.
SignatureAfterStore_Early(signature, attrib, ok) == SignatureSet(attrib)

\* ANGLE_TRY(storeVertexAttributes(...)); mSignature.set(attrib, binding):
\* the signature is set only after every step succeeded.
SignatureAfterStore(signature, attrib, ok) ==
    IF ok THEN SignatureSet(attrib) ELSE signature

\* StaticVertexBufferInterface::storeStaticAttribute, as a function of the
\* slot state and of what the collaborators answer.
StoreStaticOutcome(signature, cur, attrib, raw, fOk, hOk, wOk) ==
    LET sp == GetSpaceRequired(raw, fOk)
    IN  IF sp.result # "NoError"
        THEN [result |-> sp.result, bufferSize |-> cur,
              signature |-> signature, space |-> NoValue, trace |-> << >>]
        ELSE LET r == SetBufferSize(cur, StaticBufferSize(cur, sp.out), hOk)
                 write == Answered(Entry("storeVertexAttributes", sp.out, 0),
                                   wOk)
             IN  IF r.result # "NoError"
                 THEN [result |-> r.result, bufferSize |-> r.bufferSize,
                       signature |->
                           SignatureAfterStore(signature, attrib, FALSE),
                       space |-> sp.out,
                       trace |-> r.trace]
                 ELSE IF ~wOk
                 THEN [result |-> "BufferError", bufferSize |-> r.bufferSize,
                       signature |->
                           SignatureAfterStore(signature, attrib, FALSE),
                       space |-> sp.out,
                       trace |-> Append(r.trace, write)]
                 ELSE [result |-> "NoError", bufferSize |-> r.bufferSize,
                       signature |->
                           SignatureAfterStore(signature, attrib, TRUE),
                       space |-> sp.out,
                       trace |-> r.trace \o
                           <<write,
                             Entry("mSignature.set", NoValue, NoValue),
                             Entry("hintUnmapResource", NoValue, NoValue)>>]

(***************************************************************************)
(* VertexBuffer: reference count and serial                                *)
(***************************************************************************)
\* Addresses a VertexBuffer object can have; 0 is nullptr.
MaxHandles == 2
Addresses == 1 .. MaxHandles

\* No object at this address.
NoHandle == [live |-> FALSE, mRefCount |-> 0, mSerial |-> 0, deleted |-> 0,
             asserted |-> FALSE, initialized |-> 0]

\* VertexBuffer::VertexBuffer: mRefCount(1), updateSerial()
NewHandle(serial) ==
    [live |-> TRUE, mRefCount |-> 1, mSerial |-> serial, deleted |-> 0,
     asserted |-> FALSE, initialized |-> 0]

\* VertexBuffer::updateSerial: mSerial = mNextSerial++
NextSerial(nextSerial) == Wrap(nextSerial + 1)

\* The record of the serials handed out, after one more.
SerialsAfter(s, serial) ==
    [count |-> IF s.count < 2 THEN s.count + 1 ELSE 2,
     first |-> IF s.count = 0 THEN serial ELSE s.first,
     prev  |-> s.last,
     last  |-> serial]

\* VertexBuffer::addRef
HandleAddRef(h) == [h EXCEPT !.mRefCount = @ + 1]

\* VertexBuffer::release: ASSERT(mRefCount > 0); mRefCount--; delete this
\* at 0. Called on an object that is no longer there, it is a use after
\* free, recorded like the failed assertion.
HandleRelease(h) ==
    IF ~h.live \/ h.mRefCount <= 0
    THEN [h EXCEPT !.asserted = TRUE]
    ELSE IF h.mRefCount - 1 = 0
    THEN [h EXCEPT !.mRefCount = 0, !.live = FALSE, !.deleted = @ + 1]
    ELSE [h EXCEPT !.mRefCount = @ - 1]

\* An arena that forgets to null its pointer after the release.
PointerAfterRelease_Dangling(pointer) == pointer

\* mVertexBuffer = nullptr after the release, in reset and the destructor.
PointerAfterRelease(pointer) == 0

\* if (mVertexBuffer) { mVertexBuffer->release(); mVertexBuffer = nullptr; }
ReleaseBuffer(hs, pointer) ==
    IF pointer # 0
    THEN [hs |-> [hs EXCEPT ![pointer] = HandleRelease(hs[pointer])],
          pointer |-> PointerAfterRelease(pointer)]
    ELSE [hs |-> hs, pointer |-> pointer]

\* The state right after VertexBufferInterface::VertexBufferInterface ran
\* in a fresh process: one handle, made by factory->createVertexBuffer().
Constructed ==
    /\ arena = "alive"
    /\ mVertexBuffer = 1
    /\ handles = [a \in Addresses |-> IF a = 1 THEN NewHandle(1) ELSE NoHandle]
    /\ held = [a \in Addresses |-> 0]
    /\ mNextSerial = NextSerial(1)
    /\ serials = [count |-> 1, first |-> 1, prev |-> NoValue, last |-> 1]

\* No draw is reserving or storing.
NoBatch == [phase |-> "idle", valid |-> FALSE, raws |-> << >>, stored |-> 0,
            events |-> << >>]

(***************************************************************************)
(* History                                                                 *)
(***************************************************************************)
Pre == [pos |-> mWritePosition, reserved |-> mReservedSpace,
        bufferSize |-> bufferSize, handle |-> mVertexBuffer,
        signature |-> mSignature]

NoDescriptor == [type |-> "GL_NONE", size |-> 0, stride |-> 0,
                 normalized |-> FALSE, pureInteger |-> FALSE,
                 offset |-> NoValue]

Last(op, result, raw, space, offset) ==
    [op |-> op, result |-> result, raw |-> raw, space |-> space,
     offset |-> offset, pre |-> Pre, desc |-> NoDescriptor, matched |-> FALSE,
     factory |-> "NotCalled"]

\* What mFactory->getVertexSpaceRequired answered.
FactoryAnswer(fOk) == IF fOk THEN "NoError" ELSE "FactoryError"

\* A run: the successful storeDynamicAttribute calls made one after the
\* other with no other call in between. clean: the run began with cursor 0
\* and no pending reservation; startSize: the capacity it began with.
NoRun == [clean |-> FALSE, startSize |-> NoValue,
          raws |-> << >>, sizes |-> << >>, offsets |-> << >>]

\* The run after a successful store of raw bytes at offset, aligned to space.
RunAfterStore(raw, offset, space) ==
    IF run.raws = << >>
    THEN [clean |-> (mWritePosition = 0 /\ mReservedSpace = 0),
          startSize |-> bufferSize,
          raws |-> <<raw>>, sizes |-> <<space>>, offsets |-> <<offset>>]
    ELSE [run EXCEPT !.raws = Append(@, raw), !.sizes = Append(@, space),
                     !.offsets = Append(@, offset)]

(***************************************************************************)
(* Streaming arena: operations                                             *)
(***************************************************************************)
\* StreamingVertexBufferInterface::StreamingVertexBufferInterface
Init ==
    /\ mDynamic = TRUE
    /\ bufferSize = 0
    /\ mWritePosition = 0
    /\ mReservedSpace = 0
    /\ mSignature = NoSignature
    /\ last = [op |-> "construct", result |-> "NoError", raw |-> NoValue,
               space |-> NoValue, offset |-> NoValue,
               pre |-> [pos |-> 0, reserved |-> 0, bufferSize |-> 0,
                       handle |-> 0, signature |-> NoSignature],
               desc |-> NoDescriptor, matched |-> FALSE,
               factory |-> "NotCalled"]
    /\ trace = << >>
    /\ run = NoRun
    /\ lastSet = NoDescriptor
    /\ nOps = 0
    /\ Constructed
    /\ batch = NoBatch

\* StreamingVertexBufferInterface::initialize / the public setBufferSize
InitializeStep(initialSize, hOk) ==
    /\ LET r == SetBufferSize(bufferSize, Wrap(initialSize), hOk)
       IN  /\ bufferSize' = r.bufferSize
           /\ trace' = r.trace
           /\ last' = Last("setBufferSize", r.result, initialSize, NoValue,
                           NoValue)
    /\ run' = NoRun
    /\ nOps' = nOps + 1
    /\ UNCHANGED <<mDynamic, mWritePosition, mReservedSpace, mSignature,
                   lastSet>>

\* StreamingVertexBufferInterface::storeDynamicAttribute
StoreDynamicAttributeStep(raw, fOk, hOk, wOk) ==
    /\ LET o == StoreDynamicOutcome(mWritePosition, mReservedSpace,
                                    bufferSize, raw, fOk, hOk, wOk)
       IN  /\ mWritePosition' = o.pos
           /\ mReservedSpace' = o.reserved
           /\ bufferSize' = o.bufferSize
           /\ trace' = o.trace
           /\ last' = [Last("storeDynamicAttribute", o.result, raw, o.space,
                            o.offset)
                          EXCEPT !.factory = FactoryAnswer(fOk)]
           /\ run' = IF o.result = "NoError"
                     THEN RunAfterStore(raw, o.offset, o.space)
                     ELSE NoRun
    /\ nOps' = nOps + 1
    /\ UNCHANGED <<mDynamic, mSignature, lastSet>>

\* StreamingVertexBufferInterface::reserveVertexSpace
ReserveVertexSpaceStep(raw, fOk) ==
    /\ LET alignedRequiredSpace == ReservedAfter(mReservedSpace, raw)
           result == IF ~fOk THEN "FactoryError"
                     ELSE IF alignedRequiredSpace = NoValue
                          THEN "OutOfMemory" ELSE "NoError"
       IN  /\ mReservedSpace' = IF result = "NoError"
                                THEN alignedRequiredSpace
                                ELSE mReservedSpace
           /\ last' = [Last("reserveVertexSpace", result, raw, NoValue,
                            NoValue)
                          EXCEPT !.factory = FactoryAnswer(fOk)]
    /\ trace' = << >>
    /\ run' = NoRun
    /\ nOps' = nOps + 1
    /\ UNCHANGED <<mDynamic, bufferSize, mWritePosition, mSignature, lastSet>>

\* VertexBufferInterface::discard
DiscardStep(hOk) ==
    /\ trace' = <<Answered(Entry("discard", NoValue, NoValue), hOk)>>
    /\ last' = Last("discard", CollaboratorResult(hOk, "BufferError"),
                    NoValue, NoValue, NoValue)
    /\ run' = NoRun
    /\ nOps' = nOps + 1
    /\ UNCHANGED <<mDynamic, bufferSize, mWritePosition, mReservedSpace,
                   mSignature, lastSet>>

\* The operations of the streaming arena, on an arena that keeps its handle
\* and outside any batch bookkeeping.
Initialize(initialSize, hOk) ==
    /\ nOps < MaxOps
    /\ InitializeStep(initialSize, hOk)
    /\ UNCHANGED <<lifeVars, batch>>

StoreDynamicAttribute(raw, fOk, hOk, wOk) ==
    /\ nOps < MaxOps
    /\ StoreDynamicAttributeStep(raw, fOk, hOk, wOk)
    /\ UNCHANGED <<lifeVars, batch>>

ReserveVertexSpace(raw, fOk) ==
    /\ nOps < MaxOps
    /\ ReserveVertexSpaceStep(raw, fOk)
    /\ UNCHANGED <<lifeVars, batch>>

Discard(hOk) ==
    /\ nOps < MaxOps
    /\ DiscardStep(hOk)
    /\ UNCHANGED <<lifeVars, batch>>

Next ==
    \/ \E size \in BufferSizes, hOk \in BOOLEAN : Initialize(size, hOk)
    \/ \E raw \in RawSizes, fOk, hOk, wOk \in BOOLEAN :
           StoreDynamicAttribute(raw, fOk, hOk, wOk)
    \/ \E raw \in RawSizes, fOk \in BOOLEAN : ReserveVertexSpace(raw, fOk)
    \/ \E hOk \in BOOLEAN : Discard(hOk)

Spec == Init /\ [][Next]_vars

(***************************************************************************)
(* Static cache slot: operations                                           *)
(***************************************************************************)
\* Attribute layouts the renderer presents: a base layout, the layouts that
\* differ from it in one field, each at three byte offsets.
BaseDescriptor == [type |-> "GL_FLOAT", size |-> 2, stride |-> 12,
                   normalized |-> FALSE, pureInteger |-> FALSE, offset |-> 0]

LayoutFields == {"type", "size", "stride", "normalized", "pureInteger"}

Descriptors ==
    {d \in [type : {"GL_FLOAT", "GL_BYTE"}, size : {2, 4}, stride : {8, 12},
            normalized : BOOLEAN, pureInteger : BOOLEAN, offset : {0, 4, 36}] :
        Cardinality({f \in LayoutFields : d[f] # BaseDescriptor[f]}) <= 1}

\* Byte counts the factory returns for a static store.
StaticRawSizes == {100, 200}

\* StaticVertexBufferInterface::StaticVertexBufferInterface
InitStatic ==
    /\ mDynamic = FALSE
    /\ bufferSize = 0
    /\ mWritePosition = 0
    /\ mReservedSpace = 0
    /\ mSignature = NoSignature
    /\ last = [op |-> "construct", result |-> "NoError", raw |-> NoValue,
               space |-> NoValue, offset |-> NoValue,
               pre |-> [pos |-> 0, reserved |-> 0, bufferSize |-> 0,
                       handle |-> 0, signature |-> NoSignature],
               desc |-> NoDescriptor, matched |-> FALSE,
               factory |-> "NotCalled"]
    /\ trace = << >>
    /\ run = NoRun
    /\ lastSet = NoDescriptor
    /\ nOps = 0
    /\ Constructed
    /\ batch = NoBatch

\* StaticVertexBufferInterface::matchesAttribute
MatchesAttributeCall(attrib) ==
    /\ last' = [Last("matchesAttribute", "NoError", NoValue, NoValue, NoValue)
                   EXCEPT !.desc = attrib,
                          !.matched = MatchesAttribute(mSignature, attrib)]
    /\ trace' = << >>
    /\ UNCHANGED <<mDynamic, bufferSize, mWritePosition, mReservedSpace,
                   mSignature, run, lastSet, nOps>>
    /\ UNCHANGED <<lifeVars, batch>>

\* StaticVertexBufferInterface::setAttribute
SetAttribute(attrib) ==
    /\ mSignature' = SignatureSet(attrib)
    /\ lastSet' = attrib
    /\ last' = [Last("setAttribute", "NoError", NoValue, NoValue, NoValue)
                   EXCEPT !.desc = attrib]
    /\ trace' = <<Entry("mSignature.set", NoValue, NoValue)>>
    /\ UNCHANGED <<mDynamic, bufferSize, mWritePosition, mReservedSpace, run,
                   nOps>>
    /\ UNCHANGED <<lifeVars, batch>>

\* StaticVertexBufferInterface::storeStaticAttribute
StoreStaticAttribute(attrib, raw, fOk, hOk, wOk) ==
    /\ LET o == StoreStaticOutcome(mSignature, bufferSize, attrib, raw, fOk,
                                   hOk, wOk)
       IN  /\ bufferSize' = o.bufferSize
           /\ mSignature' = o.signature
           /\ trace' = o.trace
           /\ lastSet' = IF o.result = "NoError" THEN attrib ELSE lastSet
           /\ last' = [Last("storeStaticAttribute", o.result, raw, o.space,
                            NoValue)
                          EXCEPT !.desc = attrib,
                                 !.factory = FactoryAnswer(fOk)]
    /\ UNCHANGED <<mDynamic, mWritePosition, mReservedSpace, run, nOps>>
    /\ UNCHANGED <<lifeVars, batch>>

NextStatic ==
    \/ \E attrib \in Descriptors : MatchesAttributeCall(attrib)
    \/ \E attrib \in Descriptors : SetAttribute(attrib)
    \/ \E attrib \in Descriptors, raw \in StaticRawSizes,
          fOk, hOk, wOk \in BOOLEAN :
           StoreStaticAttribute(attrib, raw, fOk, hOk, wOk)

SpecStatic == InitStatic /\ [][NextStatic]_vars

(***************************************************************************)
(* Space calculator alone: getSpaceRequired on every unsigned value        *)
(***************************************************************************)
\* An arena and a raw size the factory is about to return for a
\* getSpaceRequired call.
InitCalc ==
    /\ mDynamic \in BOOLEAN
    /\ bufferSize = 0
    /\ mWritePosition = 0
    /\ mReservedSpace = 0
    /\ mSignature = NoSignature
    /\ \E raw \in 0 .. MaxUInt :
           last = [op |-> "pending", result |-> "NoError", raw |-> raw,
                   space |-> NoValue, offset |-> NoValue,
                   pre |-> [pos |-> 0, reserved |-> 0, bufferSize |-> 0,
                           handle |-> 0, signature |-> NoSignature],
                   desc |-> NoDescriptor, matched |-> FALSE,
                   factory |-> "NotCalled"]
    /\ trace = << >>
    /\ run = NoRun
    /\ lastSet = NoDescriptor
    /\ nOps = 0
    /\ Constructed
    /\ batch = NoBatch

\* VertexBufferInterface::getSpaceRequired, called by the renderer.
GetSpaceRequiredCall(fOk) ==
    /\ last.op = "pending"
    /\ LET sp == GetSpaceRequired(last.raw, fOk)
       IN  last' = [Last("getSpaceRequired", sp.result, last.raw, sp.out,
                         NoValue)
                       EXCEPT !.factory = FactoryAnswer(fOk)]
    /\ trace' = << >>
    /\ UNCHANGED <<mDynamic, bufferSize, mWritePosition, mReservedSpace,
                   mSignature, run, lastSet, nOps>>
    /\ UNCHANGED <<lifeVars, batch>>

NextCalc == \E fOk \in BOOLEAN : GetSpaceRequiredCall(fOk)

SpecCalc == InitCalc /\ [][NextCalc]_vars

(***************************************************************************)
(* Every operation of the file: streaming arena, cache slot, calculator    *)
(***************************************************************************)
InitAll == Init \/ InitStatic \/ InitCalc

\* The streaming arena has the dynamic hint and the cache slot has not; the
\* calculator call is the one a caller makes on either before anything else.
NextAll ==
    \/ mDynamic /\ last.op # "pending" /\ Next
    \/ ~mDynamic /\ last.op # "pending" /\ NextStatic
    \/ NextCalc

SpecAll == InitAll /\ [][NextAll]_vars

(***************************************************************************)
(* Arena and handle life cycle                                             *)
(***************************************************************************)
MaxLifeOps == 6

\* Sizes given to setBufferSize over the life of an arena.
LifeSizes == {0, 101, 1024}

\* How a call through the null mVertexBuffer ends: the process dies, or the
\* call returns whatever the read of address 0 made of it.
NullCallOutcomes == {"Crash", "NoError", "BufferError"}

\* The handle after the arena's setBufferSize ran initialize on it.
HandleAfterSetBufferSize(h, r) ==
    IF r.result = "NoError" /\ r.trace[1].call = "initialize"
    THEN [h EXCEPT !.initialized = IF @ < 2 THEN @ + 1 ELSE 2]
    ELSE h

\* VertexBufferInterface::VertexBufferInterface, for an arena built after
\* an earlier one was destroyed; dynamic is TRUE for the streaming arena and
\* FALSE for the static one.
Construct(dynamic) ==
    /\ nOps < MaxLifeOps
    /\ arena = "destroyed"
    /\ \E a \in Addresses :
          /\ ~handles[a].live
          /\ handles' = [handles EXCEPT ![a] = NewHandle(mNextSerial)]
          /\ mVertexBuffer' = a
    /\ mNextSerial' = NextSerial(mNextSerial)
    /\ serials' = SerialsAfter(serials, mNextSerial)
    /\ arena' = "alive"
    /\ mDynamic' = dynamic
    /\ bufferSize' = 0
    /\ mWritePosition' = 0
    /\ mReservedSpace' = 0
    /\ trace' = << >>
    /\ last' = Last("construct", "NoError", NoValue, NoValue, NoValue)
    /\ nOps' = nOps + 1
    /\ UNCHANGED <<held, mSignature, run, lastSet, batch>>

\* VertexBuffer::addRef, by another owner of the handle
AddRef(a) ==
    /\ nOps < MaxLifeOps
    /\ arena # "crashed"
    /\ handles[a].live
    /\ handles' = [handles EXCEPT ![a] = HandleAddRef(handles[a])]
    /\ held' = [held EXCEPT ![a] = @ + 1]
    /\ trace' = << >>
    /\ last' = Last("addRef", "NoError", NoValue, NoValue, NoValue)
    /\ nOps' = nOps + 1
    /\ UNCHANGED <<mDynamic, bufferSize, mWritePosition, mReservedSpace,
                   mSignature, run, lastSet, arena, mVertexBuffer,
                   mNextSerial, serials, batch>>

\* VertexBuffer::release, by an owner that took a reference with addRef
Release(a) ==
    /\ nOps < MaxLifeOps
    /\ arena # "crashed"
    /\ held[a] > 0
    /\ handles' = [handles EXCEPT ![a] = HandleRelease(handles[a])]
    /\ held' = [held EXCEPT ![a] = @ - 1]
    /\ trace' = << >>
    /\ last' = Last("release", "NoError", NoValue, NoValue, NoValue)
    /\ nOps' = nOps + 1
    /\ UNCHANGED <<mDynamic, bufferSize, mWritePosition, mReservedSpace,
                   mSignature, run, lastSet, arena, mVertexBuffer,
                   mNextSerial, serials, batch>>

\* StreamingVertexBufferInterface::reset. bufferSize is the capacity of the
\* handle the arena points to: none is left to ask.
Reset ==
    /\ nOps < MaxLifeOps
    /\ arena = "alive"
    /\ mDynamic
    /\ LET rb == ReleaseBuffer(handles, mVertexBuffer)
       IN  /\ handles' = rb.hs
           /\ mVertexBuffer' = rb.pointer
    /\ bufferSize' = 0
    /\ trace' = << >>
    /\ last' = Last("reset", "NoError", NoValue, NoValue, NoValue)
    /\ nOps' = nOps + 1
    /\ UNCHANGED <<mDynamic, mWritePosition, mReservedSpace, mSignature, run,
                   lastSet, arena, held, mNextSerial, serials, batch>>

\* VertexBufferInterface::~VertexBufferInterface
Destroy ==
    /\ nOps < MaxLifeOps
    /\ arena = "alive"
    /\ LET rb == ReleaseBuffer(handles, mVertexBuffer)
       IN  /\ handles' = rb.hs
           /\ mVertexBuffer' = rb.pointer
    /\ arena' = "destroyed"
    /\ bufferSize' = 0
    /\ trace' = << >>
    /\ last' = Last("destroy", "NoError", NoValue, NoValue, NoValue)
    /\ nOps' = nOps + 1
    /\ UNCHANGED <<mDynamic, mWritePosition, mReservedSpace, mSignature, run,
                   lastSet, held, mNextSerial, serials, batch>>

\* VertexBufferInterface::setBufferSize on an arena that may have been
\* reset. With mVertexBuffer null, mVertexBuffer->getBufferSize() is a call
\* through a null pointer: undefined behaviour, and no path of the function
\* creates a handle.
SetBufferSizeCall(size, hOk, nullCall) ==
    /\ nOps < MaxLifeOps
    /\ arena = "alive"
    /\ IF mVertexBuffer # 0
       THEN LET r == SetBufferSize(bufferSize, size, hOk)
            IN  /\ bufferSize' = r.bufferSize
                /\ trace' = r.trace
                /\ handles' = [handles EXCEPT ![mVertexBuffer] =
                                  HandleAfterSetBufferSize(@, r)]
                /\ last' = Last("setBufferSize", r.result, size, NoValue,
                                NoValue)
                /\ arena' = arena
       ELSE /\ arena' = IF nullCall = "Crash" THEN "crashed" ELSE arena
            /\ last' = Last("setBufferSize", nullCall, size, NoValue, NoValue)
            /\ trace' = << >>
            /\ UNCHANGED <<bufferSize, handles>>
    /\ nOps' = nOps + 1
    /\ UNCHANGED <<mDynamic, mWritePosition, mReservedSpace, mSignature, run,
                   lastSet, mVertexBuffer, held, mNextSerial, serials, batch>>

NextLife ==
    \/ \E dynamic \in BOOLEAN : Construct(dynamic)
    \/ \E a \in Addresses : AddRef(a)
    \/ \E a \in Addresses : Release(a)
    \/ Reset
    \/ Destroy
    \/ \E size \in LifeSizes, hOk \in BOOLEAN, nullCall \in NullCallOutcomes :
          SetBufferSizeCall(size, hOk, nullCall)

SpecLife == Init /\ [][NextLife]_vars

(***************************************************************************)
(* Serials over the life of the process                                    *)
(***************************************************************************)
\* VertexBuffer::VertexBuffer for the handle of some other arena of the
\* process: only the static counter is shared with this one.
CreateVertexBuffer ==
    /\ mNextSerial' = NextSerial(mNextSerial)
    /\ serials' = SerialsAfter(serials, mNextSerial)
    /\ UNCHANGED <<arenaVars, arena, mVertexBuffer, handles, held, batch>>

NextSerials == CreateVertexBuffer

SpecSerials == Init /\ [][NextSerials]_vars

(***************************************************************************)
(* Reserve-then-store batches of one draw                                  *)
(***************************************************************************)
MaxBatchOps == 8

\* Attributes of one draw.
MaxBatch == 2

\* Capacities and raw attribute sizes of the draws: small ones, and a
\* buffer of half the unsigned range filled by two attributes.
BatchBufferSizes == {101, Modulus \div 2}
BatchRawSizes == {0, 100, Modulus \div 4}

\* The batch a first successful reserveVertexSpace opens. valid: it began
\* with no pending reservation and the cursor within the capacity.
BatchOpened(raw) ==
    [phase |-> "reserve",
     valid |-> (mReservedSpace = 0 /\ mWritePosition <= bufferSize),
     raws |-> <<raw>>, stored |-> 0, events |-> << >>]

\* What one store of the batch did: the grow or discard calls it made on
\* the handle, where it wrote, how much, and the capacity at that time.
StoreEvent(calls, offset, space, capacity) ==
    [flushes |-> Len(calls) - 1, offset |-> offset, space |-> space,
     capacity |-> capacity]

\* The caller sizes the buffer between two draws.
BatchInitialize(size, hOk) ==
    /\ nOps < MaxBatchOps
    /\ batch.phase \in {"idle", "done"}
    /\ InitializeStep(size, hOk)
    /\ batch' = NoBatch
    /\ UNCHANGED lifeVars

\* reserveVertexSpace for the next attribute of the draw; a failure aborts
\* the draw.
BatchReserve(raw, fOk) ==
    /\ nOps < MaxBatchOps
    /\ batch.phase \in {"idle", "done", "reserve"}
    /\ batch.phase = "reserve" => Len(batch.raws) < MaxBatch
    /\ ReserveVertexSpaceStep(raw, fOk)
    /\ batch' = IF last'.result # "NoError" THEN NoBatch
                ELSE IF batch.phase = "reserve"
                THEN [batch EXCEPT !.raws = Append(@, raw)]
                ELSE BatchOpened(raw)
    /\ UNCHANGED lifeVars

\* storeDynamicAttribute for the next reserved attribute, with the size it
\* was reserved with; a failure aborts the draw.
BatchStore(hOk, wOk) ==
    /\ nOps < MaxBatchOps
    /\ batch.phase \in {"reserve", "store"}
    /\ batch.stored < Len(batch.raws)
    /\ StoreDynamicAttributeStep(batch.raws[batch.stored + 1], TRUE, hOk, wOk)
    /\ batch' = IF last'.result # "NoError" THEN NoBatch
                ELSE [batch EXCEPT
                         !.phase = IF batch.stored + 1 = Len(batch.raws)
                                   THEN "done" ELSE "store",
                         !.stored = @ + 1,
                         !.events = Append(@, StoreEvent(trace', last'.offset,
                                                         last'.space,
                                                         bufferSize'))]
    /\ UNCHANGED lifeVars

NextBatch ==
    \/ \E size \in BatchBufferSizes, hOk \in BOOLEAN :
          BatchInitialize(size, hOk)
    \/ \E raw \in BatchRawSizes, fOk \in BOOLEAN : BatchReserve(raw, fOk)
    \/ \E hOk \in BOOLEAN, wOk \in BOOLEAN : BatchStore(hOk, wOk)

SpecBatch == Init /\ [][NextBatch]_vars

(***************************************************************************)
(* Properties of the streaming arena                                       *)
(***************************************************************************)
RECURSIVE Sum(_)
Sum(seq) == IF seq = << >> THEN 0 ELSE Head(seq) + Sum(Tail(seq))

\* The last operation was a storeDynamicAttribute that returned NoError.
Stored == last.op = "storeDynamicAttribute" /\ last.result = "NoError"

\* The last operation was a storeDynamicAttribute that got as far as the
\* write: its reserveSpace call returned NoError.
Flushed ==
    /\ last.op = "storeDynamicAttribute"
    /\ trace # << >>
    /\ trace[Len(trace)].call = "storeVertexAttributes"

\* Destination offset of that write: the cursor reserveSpace left.
WriteOffset == trace[Len(trace)].offset

\* Calls reserveSpace made on the buffer handle before the write.
FlushCalls == SubSeq(trace, 1, Len(trace) - 1)

Resized(calls) ==
    \E i \in 1 .. Len(calls) : calls[i].call \in {"initialize", "setBufferSize"}

Discarded(calls) == \E i \in 1 .. Len(calls) : calls[i].call = "discard"

\* A run of stores that began with cursor 0 and nothing reserved and whose
\* aligned sizes sum to less than the capacity.
RunFits == run.clean /\ Len(run.sizes) >= 2 /\ Sum(run.sizes) < bufferSize

\* C1 (as stated): in a run of successful storeDynamicAttribute calls that
\* starts at cursor 0 with nothing reserved and whose aligned sizes sum to
\* less than the capacity, every offset ends before the next one begins and
\* is strictly smaller than it, also for a store of 0 bytes.
C1_StrictlyIncreasing ==
    RunFits =>
        \A i \in 1 .. Len(run.offsets) - 1 :
            /\ run.offsets[i] + run.sizes[i] <= run.offsets[i + 1]
            /\ run.offsets[i] < run.offsets[i + 1]

\* C1 (amended): in such a run every offset ends before the next one begins;
\* it is strictly smaller than the next when its store has a non-zero size
\* and equal to it when the size is 0.
C1_NonOverlapping ==
    RunFits =>
        \A i \in 1 .. Len(run.offsets) - 1 :
            /\ run.offsets[i] + run.sizes[i] <= run.offsets[i + 1]
            /\ run.sizes[i] > 0 => run.offsets[i] < run.offsets[i + 1]
            /\ run.sizes[i] = 0 => run.offsets[i] = run.offsets[i + 1]

C1_Witness ==
    /\ RunFits
    /\ Len(run.sizes) >= 3
    /\ \E i \in 1 .. Len(run.sizes) - 1 : run.sizes[i] = 0
    /\ \E i \in 1 .. Len(run.sizes) - 1 : run.sizes[i] > 0

\* C2: a successful storeDynamicAttribute on an initialized arena writes
\* inside the buffer: returned offset + aligned size <= capacity at the
\* moment of the write, whether or not space was reserved beforehand.
C2_WriteWithinBuffer ==
    (Stored /\ last.pre.bufferSize > 0) =>
        last.offset + last.space <= bufferSize

\* C3 (as stated): when reserveSpace(s) succeeds with s above the capacity,
\* the new capacity is >= max(s, 1.5 x old capacity) and the cursor is 0.
C3_GrowAtLeastOneAndAHalf ==
    (Flushed /\ last.pre.reserved > last.pre.bufferSize) =>
        /\ bufferSize >= last.pre.reserved
        /\ 2 * bufferSize >= 3 * last.pre.bufferSize
        /\ WriteOffset = 0

\* C3 (amended): when reserveSpace(s) succeeds with s above the capacity,
\* the new capacity is max(s, floor((3 x old capacity mod 2^WordBits) / 2)),
\* which is >= s and, when 3 x old capacity does not wrap, >= floor(1.5 x old
\* capacity); the buffer was resized and the cursor is 0.
C3_GrowPath ==
    (Flushed /\ last.pre.reserved > last.pre.bufferSize) =>
        LET s == last.pre.reserved
            old == last.pre.bufferSize
            half == ((3 * old) % Modulus) \div 2
        IN  /\ bufferSize = IF s >= half THEN s ELSE half
            /\ bufferSize >= s
            /\ 3 * old < Modulus => bufferSize >= (3 * old) \div 2
            /\ Resized(FlushCalls)
            /\ WriteOffset = 0

C3_Witness ==
    /\ Flushed
    /\ last.pre.reserved > last.pre.bufferSize
    /\ last.pre.bufferSize > 0
    /\ last.pre.pos > 0
    /\ bufferSize > last.pre.reserved

\* C4: when reserveSpace(size) succeeds with size <= capacity and
\* cursor + size > capacity (the true sum), the buffer is discarded and not
\* resized, the capacity is unchanged and the cursor is 0. Stated for
\* cursors inside the buffer, the states a reserving caller reaches.
C4_DiscardPath ==
    (/\ Flushed
     /\ last.pre.pos <= last.pre.bufferSize
     /\ last.pre.reserved <= last.pre.bufferSize
     /\ last.pre.pos + last.pre.reserved > last.pre.bufferSize) =>
        /\ Discarded(FlushCalls)
        /\ ~Resized(FlushCalls)
        /\ bufferSize = last.pre.bufferSize
        /\ WriteOffset = 0

\* The smallest multiple of 16 that is >= r.
SmallestMultiple(r) == CHOOSE m \in r .. r + 15 : m % 16 = 0

\* C5: getSpaceRequired outputs the smallest multiple of 16 that is >= the
\* raw size, or, exactly when that multiple does not fit an unsigned int,
\* returns OutOfMemory and writes no output.
C5_AlignmentLaw ==
    (last.op = "getSpaceRequired" /\ last.result # "FactoryError") =>
        IF SmallestMultiple(last.raw) <= MaxUInt
        THEN last.result = "NoError" /\ last.space = SmallestMultiple(last.raw)
        ELSE last.result = "OutOfMemory" /\ last.space = NoValue

C5_Witness ==
    /\ last.op = "getSpaceRequired"
    /\ last.result = "OutOfMemory"
    /\ last.raw % 16 # 0

\* C6: a storeDynamicAttribute whose aligned size added to the cursor does
\* not fit an unsigned int returns OutOfMemory and changes nothing: cursor,
\* pending reservation and capacity are as before, no call reached the
\* buffer handle.
C6_OverflowNoMutation ==
    (/\ last.op = "storeDynamicAttribute"
     /\ last.space # NoValue
     /\ last.pre.pos + last.space >= Modulus) =>
        /\ last.result = "OutOfMemory"
        /\ last.offset = NoValue
        /\ mWritePosition = last.pre.pos
        /\ mReservedSpace = last.pre.reserved
        /\ bufferSize = last.pre.bufferSize
        /\ trace = << >>

C6_Witness ==
    /\ last.op = "storeDynamicAttribute"
    /\ last.space # NoValue
    /\ last.pre.pos + last.space >= Modulus
    /\ last.pre.reserved > 0
    /\ last.pre.bufferSize > 0

\* C7: on an arena initialized with capacity 1024, stores of 100, 200 and
\* 800 bytes return offsets 0, 112 and 0, the buffer being grown before the
\* third write. (An instance of the general statement of the claim: the
\* third store does not fit between the cursor and the end of the buffer.)
C7_Scenario ==
    (/\ run.clean
     /\ run.startSize = 1024
     /\ run.raws = <<100, 200, 800>>) =>
        /\ run.offsets = <<0, 112, 0>>
        /\ Resized(FlushCalls)
        /\ bufferSize > 1024

(***************************************************************************)
(* Properties of the static cache slot                                     *)
(***************************************************************************)
\* The five layout fields of a descriptor and of a signature agree.
SameLayout(attrib, signature) ==
    /\ attrib.type = signature.type
    /\ attrib.size = signature.size
    /\ attrib.stride = signature.stride
    /\ attrib.normalized = signature.normalized
    /\ attrib.pureInteger = signature.pureInteger

\* C8: matchesAttribute returns true if and only if type, component count,
\* stride, normalization flag and pure-integer flag of the descriptor equal
\* the cached signature's and the descriptor's byte offset modulo its stride
\* equals the cached normalized offset.
C8_MatchIff ==
    last.op = "matchesAttribute" =>
        (last.matched <=>
            /\ SameLayout(last.desc, mSignature)
            /\ last.desc.offset % last.desc.stride = mSignature.offset)

C8_Witness ==
    /\ last.op = "matchesAttribute"
    /\ ~last.matched
    /\ SameLayout(last.desc, mSignature)
    /\ last.desc.stride = 8
    /\ last.desc.offset = 4
    /\ mSignature.offset = 0

\* C9: after a successful storeStaticAttribute(d) or setAttribute(d),
\* matchesAttribute(d') is true for every d' with d's type, count, stride,
\* normalization and integer flag whose byte offset differs from d's by a
\* whole multiple of the stride, d itself included, and false for every
\* other d': the slot remembers the last stored layout only.
C9_StoreThenMatch ==
    (last.op = "matchesAttribute" /\ lastSet # NoDescriptor) =>
        (last.matched <=>
            /\ SameLayout(last.desc, lastSet)
            /\ \E k \in -Modulus .. Modulus :
                   last.desc.offset - lastSet.offset = k * lastSet.stride)

C9_Witness ==
    /\ last.op = "matchesAttribute"
    /\ last.matched
    /\ lastSet.stride = 12
    /\ lastSet.offset = 36
    /\ last.desc.offset = 0

\* C10: a successful storeStaticAttribute leaves the buffer with exactly the
\* aligned required space as capacity, wrote at destination offset 0 and set
\* the signature from the descriptor, in the order resize, write, signature
\* update.
C10_StaticStore ==
    (last.op = "storeStaticAttribute" /\ last.result = "NoError") =>
        /\ bufferSize = SmallestMultiple(last.raw)
        /\ Len(trace) >= 3
        /\ trace[1].call =
               (IF last.pre.bufferSize = 0 THEN "initialize" ELSE "setBufferSize")
        /\ trace[1].size = SmallestMultiple(last.raw)
        /\ trace[2].call = "storeVertexAttributes"
        /\ trace[2].offset = 0
        /\ trace[3].call = "mSignature.set"
        /\ mSignature = [type |-> last.desc.type, size |-> last.desc.size,
                         stride |-> last.desc.stride,
                         normalized |-> last.desc.normalized,
                         pureInteger |-> last.desc.pureInteger,
                         offset |-> last.desc.offset % last.desc.stride]

C10_Witness ==
    /\ last.op = "storeStaticAttribute"
    /\ last.result = "NoError"
    /\ bufferSize < last.pre.bufferSize
    /\ last.desc.offset >= last.desc.stride

(***************************************************************************)
(* Streaming arena: failures, discard, store and reserve postconditions    *)
(***************************************************************************)
\* The handle's allocation or discard call failed inside the last operation:
\* it was the last call made on the handle and the operation reports it.
FlushFailed ==
    /\ last.op \in {"storeDynamicAttribute", "setBufferSize"}
    /\ last.result = "BufferError"
    /\ trace # << >>
    /\ trace[Len(trace)].call \in {"initialize", "setBufferSize", "discard"}

\* C11: when the handle's initialize, setBufferSize or discard call fails
\* inside storeDynamicAttribute (through reserveSpace) or setBufferSize, the
\* operation returns that error, the cursor and the pending reservation keep
\* their pre-call values and nothing was written.
C11_FailedFlushKeepsState ==
    FlushFailed =>
        /\ mWritePosition = last.pre.pos
        /\ mReservedSpace = last.pre.reserved
        /\ bufferSize = last.pre.bufferSize
        /\ \A i \in 1 .. Len(trace) : trace[i].call # "storeVertexAttributes"

C11_Witness ==
    /\ FlushFailed
    /\ last.op = "storeDynamicAttribute"
    /\ last.pre.pos > 0
    /\ last.pre.reserved > 0

\* C12: after a successful discard() the cursor is 0 (so that the next
\* store with no pending reservation returns offset 0).
C12_DiscardResetsCursor ==
    (last.op = "discard" /\ last.result = "NoError") => mWritePosition = 0

\* The calls that flushed the reservation before the write of the last store.
FlushedBeforeWrite == Len(trace) > 1

\* C15: a successful storeDynamicAttribute returns the cursor at which the
\* data was written, which is the cursor left by the reservation flush (0
\* after a grow or discard, the pre-call cursor otherwise); the new cursor
\* is that offset plus the aligned required space and the pending
\* reservation is 0.
C15_StorePostcondition ==
    (last.op = "storeDynamicAttribute" /\ last.result = "NoError") =>
        /\ trace # << >>
        /\ trace[Len(trace)].call = "storeVertexAttributes"
        /\ trace[Len(trace)].offset = last.offset
        /\ last.offset = IF FlushedBeforeWrite THEN 0 ELSE last.pre.pos
        /\ last.space = SmallestMultiple(last.raw)
        /\ mWritePosition = last.offset + last.space
        /\ mReservedSpace = 0

C15_Witness ==
    /\ last.op = "storeDynamicAttribute"
    /\ last.result = "NoError"
    /\ FlushedBeforeWrite
    /\ last.pre.pos > 0
    /\ last.pre.reserved > 0
    /\ last.space > 0

\* The reservation reserveVertexSpace is asked to reach, in unbounded
\* arithmetic.
ReservationAsked == SmallestMultiple(last.raw) + last.pre.reserved

\* C16: reserveVertexSpace never writes, resizes, discards or moves the
\* cursor; on success the pending reservation grows by exactly the required
\* space rounded up to a multiple of 16; when the rounding or the sum does
\* not fit the unsigned word it returns the overflow error, and on every
\* error the pending reservation keeps its value.
C16_ReserveOnlyAccumulates ==
    last.op = "reserveVertexSpace" =>
        /\ mWritePosition = last.pre.pos
        /\ bufferSize = last.pre.bufferSize
        /\ trace = << >>
        /\ last.result = "NoError" =>
               /\ ReservationAsked <= MaxUInt
               /\ mReservedSpace = ReservationAsked
        /\ last.result # "NoError" => mReservedSpace = last.pre.reserved
        /\ last.result = "OutOfMemory" => ReservationAsked > MaxUInt
        /\ ReservationAsked > MaxUInt => last.result # "NoError"

C16_Witness ==
    /\ last.op = "reserveVertexSpace"
    /\ last.result = "OutOfMemory"
    /\ last.pre.reserved > 0
    /\ SmallestMultiple(last.raw) <= MaxUInt
    /\ mReservedSpace = last.pre.reserved

\* C18: after a successful public setBufferSize on an arena that already
\* holds stored data, the cursor and the pending reservation are both 0.
C18_ResizeResetsCursor ==
    (last.op = "setBufferSize" /\ last.result = "NoError"
         /\ last.pre.pos > 0) =>
        (mWritePosition = 0 /\ mReservedSpace = 0)

(***************************************************************************)
(* Properties of the handle: reference count, serial, life cycle           *)
(***************************************************************************)
\* The references to the object at address a: those taken with addRef and
\* the arena's own.
Owners(a) == held[a] + (IF mVertexBuffer = a THEN 1 ELSE 0)

\* C13: a handle is created with count 1, addRef and release move the count
\* by one (the count is the number of references held), the handle is
\* destroyed exactly when a release brings the count to 0, once, and no
\* release finds the count at 0 or the object gone, whatever the sequence of
\* arena constructions, resets and destructions.
C13_ReferenceCounting ==
    \A a \in Addresses :
        LET h == handles[a]
        IN  /\ ~h.asserted
            /\ h.deleted <= 1
            /\ h.live <=> h.mRefCount > 0
            /\ h.live => h.mRefCount = Owners(a)
            /\ ~h.live => Owners(a) = 0
            /\ h.deleted = 1 => ~h.live

C13_Witness ==
    /\ last.op = "destroy"
    /\ last.pre.handle = 0
    /\ \E a \in Addresses : handles[a].deleted = 1
    /\ \E a \in Addresses : handles[a].live /\ handles[a].mRefCount = 1

\* C14: each handle created gets a serial strictly greater than the one
\* created before it.
C14_SerialsIncrease ==
    serials.count >= 2 => serials.last > serials.prev

\* C19 as stated: once a setBufferSize has initialized the handle, no later
\* call initializes it again.
C19_InitializedOnce ==
    \A a \in Addresses : handles[a].initialized <= 1

\* C19: setBufferSize on an arena that has its handle makes exactly one call
\* on it: initialize, with the requested size and the arena's dynamic hint,
\* exactly when the current capacity is 0, and setBufferSize with the
\* requested size exactly when it is not; on success the capacity is the
\* requested size.
C19_InitializeIffEmpty ==
    (last.op = "setBufferSize" /\ last.pre.handle # 0) =>
        /\ Len(trace) = 1
        /\ trace[1].call = IF last.pre.bufferSize = 0 THEN "initialize"
                           ELSE "setBufferSize"
        /\ trace[1].size = last.raw
        /\ trace[1].call = "initialize" => trace[1].dynamic = mDynamic
        /\ last.result = "NoError" => bufferSize = last.raw

C19_Witness ==
    /\ last.op = "setBufferSize"
    /\ last.result = "NoError"
    /\ last.pre.handle # 0
    /\ trace[1].call = "initialize"
    /\ ~mDynamic
    /\ last.raw > 0
    /\ handles[mVertexBuffer].initialized = 2

\* C20: a setBufferSize call on an arena that holds no handle (after reset)
\* leaves a live arena with a handle whose capacity is the requested size.
C20_UsableAfterReset ==
    (last.op = "setBufferSize" /\ last.pre.handle = 0) =>
        /\ arena = "alive"
        /\ mVertexBuffer # 0
        /\ last.result = "NoError"
        /\ bufferSize = last.raw

(***************************************************************************)
(* Properties of the reserve-then-store batches                            *)
(***************************************************************************)
\* C17: in a batch that began with no pending reservation and the cursor
\* within the capacity, reserved attribute by attribute and then stored in
\* the same order with the same sizes, at most one grow or discard happens
\* and only in the first store, every write lies within the capacity, and no
\* later store of the batch rewinds onto the data of an earlier one.
C17_BatchProtocol ==
    batch.valid =>
        \A j \in 1 .. Len(batch.events) :
            LET e == batch.events[j]
            IN  /\ e.flushes <= 1
                /\ j > 1 => e.flushes = 0
                /\ e.offset + e.space <= e.capacity
                /\ \A i \in 1 .. j - 1 :
                      batch.events[i].offset + batch.events[i].space
                          <= e.offset

(***************************************************************************)
(* Failed static stores, unreserved stores, cursor arithmetic              *)
(***************************************************************************)
\* C22: a storeStaticAttribute that returns an error leaves the signature
\* as it was before the call, whether the space computation, the resize or
\* the write failed, and even when the call already resized the buffer.
C22_FailedStoreKeepsSignature ==
    (last.op = "storeStaticAttribute" /\ last.result # "NoError") =>
        /\ mSignature = last.pre.signature
        /\ \A i \in 1 .. Len(trace) : trace[i].call # "mSignature.set"

C22_Witness ==
    /\ last.op = "storeStaticAttribute"
    /\ last.result = "BufferError"
    /\ Len(trace) = 2
    /\ bufferSize # last.pre.bufferSize
    /\ mSignature # NoSignature
    /\ ~MatchesAttribute(mSignature, last.desc)

\* C23: a storeDynamicAttribute called with no pending reservation makes no
\* grow and no discard call, leaves the capacity unchanged and, when it
\* succeeds, wrote at the cursor it was called with.
C23_UnreservedStoreKeepsBuffer ==
    (last.op = "storeDynamicAttribute" /\ last.pre.reserved = 0) =>
        /\ bufferSize = last.pre.bufferSize
        /\ \A i \in 1 .. Len(trace) : trace[i].call = "storeVertexAttributes"
        /\ last.result = "NoError" => last.offset = last.pre.pos

\* C24: after a successful storeDynamicAttribute the cursor is the returned
\* offset plus the aligned required space as a true sum that fits the
\* unsigned word: the returned offset is the pre-call cursor or 0, and the
\* pre-call cursor plus the space was checked to fit.
C24_AdvanceNeverWraps ==
    (last.op = "storeDynamicAttribute" /\ last.result = "NoError") =>
        /\ last.offset \in {0, last.pre.pos}
        /\ last.pre.pos + last.space <= MaxUInt
        /\ last.offset + last.space <= MaxUInt
        /\ mWritePosition = last.offset + last.space

C24_Witness ==
    /\ last.op = "storeDynamicAttribute"
    /\ last.result = "NoError"
    /\ last.offset > 0
    /\ last.space > 0
    /\ mWritePosition + last.space > MaxUInt

\* C25: the cursor and the pending reservation are multiples of 16 in every
\* state, and so is every offset a store returns.
C25_Aligned ==
    /\ mWritePosition % 16 = 0
    /\ mReservedSpace % 16 = 0
    /\ (last.op = "storeDynamicAttribute" /\ last.result = "NoError") =>
           last.offset % 16 = 0

C25_Witness ==
    /\ last.op = "storeDynamicAttribute"
    /\ last.result = "NoError"
    /\ last.raw % 16 # 0
    /\ last.pre.reserved > 0
    /\ last.offset > 0
    /\ mWritePosition > last.offset

(***************************************************************************)
(* Error propagation                                                       *)
(***************************************************************************)
\* The last operation left the arena or slot fields as it found them.
FieldsUntouched ==
    /\ mWritePosition = last.pre.pos
    /\ mReservedSpace = last.pre.reserved
    /\ bufferSize = last.pre.bufferSize
    /\ mSignature = last.pre.signature

\* C21: in every operation an error answered by the factory's
\* getVertexSpaceRequired or by a call on the handle is the operation's
\* result; the failing call is the last step of the operation (no handle
\* call follows it, no offset is returned, the cursor is not advanced, the
\* signature is not set) and no handle call is made twice. An operation
\* reports a collaborator's error only when a collaborator failed.
C21_ErrorsPropagate ==
    /\ last.factory = "FactoryError" =>
           /\ last.result = "FactoryError"
           /\ trace = << >>
           /\ FieldsUntouched
    /\ \A i \in 1 .. Len(trace) :
           ~trace[i].ok =>
               /\ i = Len(trace)
               /\ last.result = "BufferError"
               /\ last.offset = NoValue
               /\ mSignature = last.pre.signature
               /\ trace[i].call = "storeVertexAttributes" =>
                      mWritePosition = trace[i].offset
               /\ trace[i].call # "storeVertexAttributes" =>
                      /\ mWritePosition = last.pre.pos
                      /\ mReservedSpace = last.pre.reserved
    /\ \A i, j \in 1 .. Len(trace) :
           i # j => trace[i].call # trace[j].call
    /\ last.result = "FactoryError" => last.factory = "FactoryError"
    /\ last.result = "BufferError" =>
           (trace # << >> /\ ~trace[Len(trace)].ok)

C21_Witness ==
    /\ last.op = "storeDynamicAttribute"
    /\ last.result = "BufferError"
    /\ Len(trace) = 2
    /\ trace[1].ok
    /\ ~trace[2].ok
    /\ last.pre.pos > 0
    /\ last.space > 0

====
